---- MODULE Spec2Model ----
(***************************************************************************)
(* Model of the log-line composition engine of go-lager (package lager):   *)
(* the pooled line buffer, its early-flush / output-mutex protocol, the    *)
(* structural (delimiter) writer and the scalar encoder.                   *)
(*                                                                         *)
(* Bytes are naturals 0..255; strings and byte slices are sequences of     *)
(* bytes.  A handler of the buffer is a pure operator on an execution      *)
(* record X: the buffer's fields (buf, cap, delim, locked) plus what the   *)
(* handler did to the shared world while it ran (ws: the calls of          *)
(* b.w.Write in order; acq / rel: whether it called outMu.Lock() or        *)
(* outMu.Unlock(); tight: whether scalar() found less than its headroom    *)
(* free; panicked: whether it ran into a run-time panic, which ends it).   *)
(* An action applies one handler to one buffer and commits what    *)
(* it did to the output stream and to the mutex.                           *)
(***************************************************************************)
EXTENDS Integers, Sequences, FiniteSets, TLC

(***************************************************************************)
(* Bounds.  The scratch region (16*1024 bytes in the source) and the       *)
(* headroom the scalar encoder reserves (64 bytes in the source) are       *)
(* scaled down so that overflow happens within a few appends.              *)
(***************************************************************************)
ScratchCap == 8

Headroom == 3

NBuf == 2

MaxLines == 2

MaxOps == 2

MaxChunk == ScratchCap + 1

Bufs == 1..NBuf

\* Chunk lengths tried under concurrency: small, exactly the scratch
\* capacity, and larger than it.
ChunkLens == { 1, ScratchCap, MaxChunk }

(***************************************************************************)
(* Character codes of the literals the source writes.                      *)
(***************************************************************************)
Ch == [ dq |-> 34, bsl |-> 92, sp |-> 32, cm |-> 44, col |-> 58,
        lbk |-> 91, rbk |-> 93, lbr |-> 123, rbr |-> 125,
        zero |-> 48, minus |-> 45, dot |-> 46,
        a |-> 97, b |-> 98, e |-> 101, f |-> 102, l |-> 108, n |-> 110,
        r |-> 114, s |-> 115, t |-> 116, u |-> 117, k |-> 107,
        x |-> 120, y |-> 121, z |-> 122, Z |-> 90, bang |-> 33 ]

\* const comma = ", "
commaBare == << Ch.cm >>

comma == << Ch.cm, Ch.sp >>

empty == << >>

RECURSIVE Concat(_)
Concat(ss) == IF ss = << >> THEN << >> ELSE Head(ss) \o Concat(Tail(ss))

(***************************************************************************)
(* The buffer, and the execution record of one handler run on it.          *)
(***************************************************************************)
\* new(buffer) with a scratch array of n bytes, and b.buf = b.scratch[0:0];
\* delim and locked are zero values.
newBuffer(n) == [ scratch |-> n, buf |-> << >>, cap |-> n, delim |-> empty,
                  locked |-> FALSE ]

\* bufPool.New
bufPoolNew == newBuffer(ScratchCap)

\* Start of a handler on buffer fields bf: nothing done to the world yet.
Enter(bf) == [ scratch |-> bf.scratch, buf |-> bf.buf, cap |-> bf.cap,
               delim |-> bf.delim, locked |-> bf.locked, ws |-> << >>,
               acq |-> FALSE, rel |-> FALSE, tight |-> FALSE,
               panicked |-> FALSE, fail |-> {} ]

\* The same on a stream that fails the write calls whose ordinals within
\* the handler are in fail.
Failing(bf, fail) == [ Enter(bf) EXCEPT !.fail = fail ]

\* The buffer fields a handler leaves behind.
Leave(X) == [ scratch |-> X.scratch, buf |-> X.buf, cap |-> X.cap,
              delim |-> X.delim, locked |-> X.locked ]

\* Sequencing of two statements: the record Y the first one leaves is
\* evaluated before the rest e is.
Then(Y, e) == CASE Y.cap >= 0 -> e

\* A write call that is made again when it fails.
StreamWriteRetry(X, p, inUnlock) ==
    LET call == [ bytes |-> p, held |-> X.locked, acq |-> X.acq,
                  rel |-> X.rel, final |-> inUnlock,
                  err |-> (Len(X.ws) + 1) \in X.fail ]
    IN  [ X EXCEPT !.ws = IF call.err
                          THEN @ \o << call, [ call EXCEPT !.err = FALSE ] >>
                          ELSE Append(@, call) ]

\* b.w.Write(p) / io.WriteString(b.w, p): one call on the stream, whose
\* results (n, err) are dropped.  The record keeps, beside the bytes,
\* whether the buffer's locked flag was set at the call, whether the
\* handler had by then called outMu.Lock() or outMu.Unlock(), whether the
\* call was made by unlock(), and whether the stream failed it.
StreamWrite(X, p, inUnlock) ==
    [ X EXCEPT !.ws = Append(@, [ bytes |-> p, held |-> X.locked,
                                  acq |-> X.acq, rel |-> X.rel,
                                  final |-> inUnlock,
                                  err |-> (Len(X.ws) + 1) \in X.fail ]) ]

\* b.buf = b.scratch[0:0]
ResetBuf(X) == [ X EXCEPT !.buf = << >>, !.cap = X.scratch ]

\* lock() that flushes before it takes the mutex.
lockLate(X) ==
    LET Y == IF 0 < Len(X.buf)
             THEN ResetBuf(StreamWrite(X, X.buf, FALSE))
             ELSE X
    IN  IF ~ Y.locked THEN [ Y EXCEPT !.acq = TRUE, !.locked = TRUE ] ELSE Y

\* lock() that sets the flag but forgets outMu.Lock().
lockNoMutex(X) ==
    LET Y == IF ~ X.locked THEN [ X EXCEPT !.locked = TRUE ] ELSE X
    IN  IF 0 < Len(Y.buf)
        THEN ResetBuf(StreamWrite(Y, Y.buf, FALSE))
        ELSE Y

\* func (b *buffer) lock()
lock(X) ==
    LET Y == IF ~ X.locked
             THEN [ X EXCEPT !.acq = TRUE, !.locked = TRUE ]
             ELSE X
    IN  IF 0 < Len(Y.buf)
        THEN ResetBuf(StreamWrite(Y, Y.buf, FALSE))
        ELSE Y

\* unlock() that clears the flag but never calls outMu.Unlock().
unlockForget(X) ==
    LET Y == IF 0 < Len(X.buf)
             THEN ResetBuf(StreamWrite(X, X.buf, TRUE))
             ELSE X
    IN  IF Y.locked THEN [ Y EXCEPT !.locked = FALSE ] ELSE Y

\* unlock() that releases the mutex before it writes the remainder.
unlockEarly(X) ==
    LET Y == IF X.locked THEN [ X EXCEPT !.locked = FALSE, !.rel = TRUE ]
             ELSE X
    IN  IF 0 < Len(Y.buf)
        THEN ResetBuf(StreamWrite(Y, Y.buf, TRUE))
        ELSE Y

\* unlock() that releases the mutex but leaves the flag set.
unlockKeepFlag(X) ==
    LET Y == IF 0 < Len(X.buf)
             THEN ResetBuf(StreamWrite(X, X.buf, TRUE))
             ELSE X
    IN  IF Y.locked THEN [ Y EXCEPT !.rel = TRUE ] ELSE Y

\* unlock() that writes the remainder but does not reset the cursor.
unlockNoReset(X) ==
    LET Y == IF 0 < Len(X.buf) THEN StreamWrite(X, X.buf, TRUE) ELSE X
    IN  IF Y.locked
        THEN [ Y EXCEPT !.locked = FALSE, !.rel = TRUE ]
        ELSE Y

\* func (b *buffer) unlock()
unlock(X) ==
    LET Y == IF 0 < Len(X.buf)
             THEN ResetBuf(StreamWrite(X, X.buf, TRUE))
             ELSE X
    IN  IF Y.locked
        THEN [ Y EXCEPT !.locked = FALSE, !.rel = TRUE ]
        ELSE Y

\* writeBytes() that writes an oversize chunk without flushing first.
writeBytesNoFlush(X, s) ==
    IF X.cap < Len(s)
    THEN StreamWrite(X, s, FALSE)
    ELSE LET Y == IF X.cap < Len(X.buf) + Len(s) THEN lock(X) ELSE X
         IN  [ Y EXCEPT !.buf = @ \o s ]

\* writeBytes() that also writes a chunk of exactly the capacity directly.
writeBytesEq(X, s) ==
    LET Y == IF X.cap < Len(X.buf) + Len(s) THEN lock(X) ELSE X
    IN  IF Y.cap <= Len(s)
        THEN StreamWrite(Y, s, FALSE)
        ELSE [ Y EXCEPT !.buf = @ \o s ]

\* func (b *buffer) writeBytes(s []byte)
writeBytes(X, s) ==
    LET Y == IF X.cap < Len(X.buf) + Len(s) THEN lock(X) ELSE X
    IN  IF Y.cap < Len(s)
        THEN StreamWrite(Y, s, FALSE)
        ELSE [ Y EXCEPT !.buf = @ \o s ]

\* write() that flushes already when the string fills the scratch exactly.
write1Eager(X, s) ==
    LET Y == IF X.cap <= Len(X.buf) + Len(s) THEN lock(X) ELSE X
    IN  IF Y.cap < Len(s)
        THEN StreamWrite(Y, s, FALSE)
        ELSE [ Y EXCEPT !.buf = @ \o s ]

\* One iteration of the loop of write(): the same protocol for a string.
write1(X, s) ==
    LET Y == IF X.cap < Len(X.buf) + Len(s) THEN lock(X) ELSE X
    IN  IF Y.cap < Len(s)
        THEN StreamWrite(Y, s, FALSE)
        ELSE [ Y EXCEPT !.buf = @ \o s ]

\* func (b *buffer) write(strs ...string)
RECURSIVE write(_, _)
write(X, strs) ==
    IF strs = << >> THEN X
    ELSE LET rest(Y) == Then(Y, write(Y, Tail(strs)))
         IN  rest(write1(X, Head(strs)))

(***************************************************************************)
(* Escaping and quoting.                                                   *)
(***************************************************************************)
\* var noEsc [256]bool, as init() fills it.
noEsc7Bit(c) == c >= Ch.sp /\ c < 128 /\ c # Ch.dq /\ c # Ch.bsl

noEsc(c) == c >= Ch.sp /\ c < 256 /\ c # Ch.dq /\ c # Ch.bsl

\* var hexDigits = "0123456789abcdef"
hexDigits == << 48, 49, 50, 51, 52, 53, 54, 55, 56, 57,
                97, 98, 99, 100, 101, 102 >>

\* The switch of escape() / escapeBytes(): the escape sequence of byte c.
\* The default case fills buf[5] down to buf[2] from the low nibble up.
escOf(c) ==
    CASE c = Ch.dq  -> << Ch.bsl, Ch.dq >>
      [] c = Ch.bsl -> << Ch.bsl, Ch.bsl >>
      [] c = 8      -> << Ch.bsl, Ch.b >>
      [] c = 12     -> << Ch.bsl, Ch.f >>
      [] c = 10     -> << Ch.bsl, Ch.n >>
      [] c = 13     -> << Ch.bsl, Ch.r >>
      [] c = 9      -> << Ch.bsl, Ch.t >>
      [] OTHER      -> << Ch.bsl, Ch.u,
                          hexDigits[((c \div 4096) % 16) + 1],
                          hexDigits[((c \div 256) % 16) + 1],
                          hexDigits[((c \div 16) % 16) + 1],
                          hexDigits[(c % 16) + 1] >>

\* func (b *buffer) escape(s string): the loop from index i (1-based) with
\* the current run starting at beg.
RECURSIVE escapeFrom(_, _, _, _)
escapeFrom(X, s, beg, i) ==
    IF i > Len(s)
    THEN write(X, << SubSeq(s, beg, Len(s)) >>)
    ELSE IF noEsc(s[i])
         THEN escapeFrom(X, s, beg, i + 1)
         ELSE LET esc(Y) == Then(Y, write(Y, << escOf(s[i]) >>))
                  rest(Y) == Then(Y, escapeFrom(Y, s, i + 1, i + 1))
              IN  rest(esc(write(X, << SubSeq(s, beg, i - 1) >>)))

escape(X, s) == escapeFrom(X, s, 1, 1)

\* escapeBytes() that copies the bytes without escaping any.
escapeBytesPlain(X, s) == writeBytes(X, s)

\* func (b *buffer) escapeBytes(s []byte)
RECURSIVE escapeBytesFrom(_, _, _, _)
escapeBytesFrom(X, s, beg, i) ==
    IF i > Len(s)
    THEN writeBytes(X, SubSeq(s, beg, Len(s)))
    ELSE IF noEsc(s[i])
         THEN escapeBytesFrom(X, s, beg, i + 1)
         ELSE LET esc(Y) == Then(Y, write(Y, << escOf(s[i]) >>))
                  rest(Y) == Then(Y, escapeBytesFrom(Y, s, i + 1, i + 1))
              IN  rest(esc(writeBytes(X, SubSeq(s, beg, i - 1))))

escapeBytes(X, s) == escapeBytesFrom(X, s, 1, 1)

\* func (b *buffer) quote(s string)
quote(X, s) ==
    LET body(Y) == Then(Y, escape(Y, s))
        endq(Y) == Then(Y, write(Y, << << Ch.dq >> >>))
        setd(Y) == Then(Y, [ Y EXCEPT !.delim = comma ])
    IN  setd(endq(body(write(X, << X.delim, << Ch.dq >> >>))))

\* func (b *buffer) quoteBytes(s []byte)
quoteBytes(X, s) ==
    LET body(Y) == Then(Y, escapeBytes(Y, s))
        endq(Y) == Then(Y, write(Y, << << Ch.dq >> >>))
    IN  endq(body(write(X, << X.delim, << Ch.dq >> >>)))

(***************************************************************************)
(* Structural writer.                                                      *)
(***************************************************************************)
\* func (b *buffer) open(punct string)
open(X, punct) == [ write(X, << X.delim, punct >>) EXCEPT !.delim = empty ]

\* func (b *buffer) colon()
colon(X) == [ write(X, << << Ch.col >> >>) EXCEPT !.delim = empty ]

\* close() that leaves the pending delimiter as it was.
closeNoComma(X, punct) == write(X, << punct >>)

\* func (b *buffer) close(punct string)
close(X, punct) == [ write(X, << punct >>) EXCEPT !.delim = comma ]

(***************************************************************************)
(* Decimal formatting and append.                                          *)
(***************************************************************************)
\* Decimal digits of a natural number, most significant first.
RECURSIVE Digits(_)
Digits(n) ==
    IF n < 10 THEN << Ch.zero + n >>
    ELSE Append(Digits(n \div 10), Ch.zero + (n % 10))

\* strconv.FormatInt(v, 10)
FormatInt(v) == IF v < 0 THEN << Ch.minus >> \o Digits(0 - v) ELSE Digits(v)

\* Capacity of the slice append() returns when need bytes do not fit in
\* c: at least need, and grown by a quarter (the Go runtime's rule for
\* large slices, before rounding).
GrowCap(c, need) ==
    IF need <= c THEN c
    ELSE IF c + (c \div 4) + 1 >= need THEN c + (c \div 4) + 1 ELSE need

\* b.buf = strconv.AppendInt(b.buf, ...) and the like: append(), which
\* leaves the scratch region for a larger array when the bytes do not fit.
appendTo(X, p) ==
    [ X EXCEPT !.buf = @ \o p,
               !.cap = GrowCap(X.cap, Len(X.buf) + Len(p)) ]

(***************************************************************************)
(* The timestamp and its fixed-width number formatters.                    *)
(***************************************************************************)
\* func (b *buffer) int2(val int): the reslice b.buf[0:2+l] panics when
\* 2+l is beyond cap(b.buf); nothing checks for room.
int2(X, val) ==
    IF X.cap < 2 + Len(X.buf) THEN [ X EXCEPT !.panicked = TRUE ]
    ELSE [ X EXCEPT !.buf = @ \o << Ch.zero + (val \div 10),
                                    Ch.zero + (val % 10) >> ]

zeros(n) == [ i \in 1..n |-> Ch.zero ]

\* func (b *buffer) int(val int, digits int): AppendInt may move b.buf to a
\* larger array; the reslice b.buf[0:bef+digits] panics when bef+digits is
\* beyond the capacity b.buf has then.
int(X, val, digits) ==
    LET pad(Y) ==
            Then(Y, IF Len(Y.buf) - Len(X.buf) < digits
                    THEN IF Y.cap < Len(X.buf) + digits
                         THEN [ Y EXCEPT !.panicked = TRUE ]
                         ELSE [ Y EXCEPT !.buf =
                                  X.buf
                                  \o zeros(digits - (Len(Y.buf) - Len(X.buf)))
                                  \o FormatInt(val) ]
                    ELSE Y)
    IN  pad(appendTo(X, FormatInt(val)))

\* func (b *buffer) timestamp(), with now the value of time.Now() in UTC.
\* A panic ends the handler where it happens.
timestamp(X, now) ==
    LET w(Y, str) == Then(Y, IF Y.panicked THEN Y ELSE write(Y, << str >>))
        i2(Y, val) == Then(Y, IF Y.panicked THEN Y ELSE int2(Y, val))
        yr(Y) == Then(Y, appendTo(Y, FormatInt(now.yr)))
        ms(Y) == Then(Y, IF Y.panicked THEN Y ELSE int(Y, now.ms, 3))
        setd(Y) == Then(Y, IF Y.panicked THEN Y
                           ELSE [ Y EXCEPT !.delim = comma ])
    IN  setd(w(ms(w(i2(w(i2(w(i2(w(i2(w(i2(w(yr(w(
            IF X.cap < Len(X.buf) + 22 THEN lock(X) ELSE X,
            << Ch.dq >>)),
            << Ch.minus >>), now.mo),
            << Ch.minus >>), now.day),
            << Ch.sp >>), now.hr),
            << Ch.col >>), now.mi),
            << Ch.col >>), now.sec),
            << Ch.dot >>)),
            << Ch.Z, Ch.dq >>))

(***************************************************************************)
(* Values a caller can log.  t names the dynamic type the type switch of   *)
(* scalar() sees.                                                          *)
(***************************************************************************)
VNil == [ t |-> "nil" ]
VStr(s) == [ t |-> "string", s |-> s ]
VBytes(s) == [ t |-> "bytes", s |-> s ]
VInt(n) == [ t |-> "int", n |-> n ]
VUint(n) == [ t |-> "uint", n |-> n ]
\* A float with the bytes strconv.AppendFloat(.., 'g', -1, bits) gives it.
VFloat(repr) == [ t |-> "float", repr |-> repr ]
VBool(v) == [ t |-> "bool", v |-> v ]
VStrings(elts) == [ t |-> "strings", elts |-> elts ]
VAList(elts) == [ t |-> "AList", elts |-> elts ]
VRawMap(elts) == [ t |-> "RawMap", elts |-> elts ]
\* AMap is a pointer to the keys and values, or nil.
VAMapNil == [ t |-> "AMap", isnil |-> TRUE, keys |-> << >>, vals |-> << >> ]
VAMap(keys, vals) ==
    [ t |-> "AMap", isnil |-> FALSE, keys |-> keys, vals |-> vals ]
\* map[string]interface{}: the keys in the order a range over the map
\* yields them (any order of the key set), and the value of each.
VMap(order, val) ==
    [ t |-> "map", keyset |-> { order[i] : i \in DOMAIN order },
      order |-> order, val |-> val ]
VError(msg) == [ t |-> "error", msg |-> msg ]
\* Any other type, with what json.Marshal returns for it.
VOther(json, failed, errmsg) ==
    [ t |-> "other", json |-> json, failed |-> failed, errmsg |-> errmsg ]

\* Lexicographic order of strings by byte, as sort.Strings uses.
RECURSIVE StrLess(_, _)
StrLess(p, q) ==
    IF q = << >> THEN FALSE
    ELSE IF p = << >> THEN TRUE
    ELSE IF Head(p) # Head(q) THEN Head(p) < Head(q)
    ELSE StrLess(Tail(p), Tail(q))

\* sort.Strings(keys) left out: the keys stay as the range yielded them.
sortStringsNone(keys) == keys

\* sort.Strings(keys): the keys in ascending order, least first.
RECURSIVE sortStrings(_)
sortStrings(keys) ==
    IF keys = << >> THEN << >>
    ELSE LET m == CHOOSE i \in DOMAIN keys :
                      \A j \in DOMAIN keys : ~ StrLess(keys[j], keys[i])
         IN  << keys[m] >>
             \o sortStrings(SubSeq(keys, 1, m - 1)
                            \o SubSeq(keys, m + 1, Len(keys)))

\* S(elt) for a key of a RawMap that is already a string.
S(elt) == elt.s

(***************************************************************************)
(* Scalar encoder.                                                         *)
(***************************************************************************)
RECURSIVE scalar(_, _)
RECURSIVE scalarEach(_, _)
RECURSIVE pairsFrom(_, _, _)
RECURSIVE rawMapFrom(_, _, _)
RECURSIVE pairEach(_, _, _)

\* for _, s := range v { b.scalar(s) }
scalarEach(X, elts) ==
    IF elts = << >> THEN X
    ELSE LET rest(Y) == Then(Y, scalarEach(Y, Tail(elts)))
         IN  rest(scalar(X, Head(elts)))

\* pair() that drops the key and the colon too when the value is an empty
\* or absent AMap.
pairDrop(X, k, v) ==
    IF v.t = "AMap" /\ (v.isnil \/ 0 = Len(v.keys)) THEN X
    ELSE LET sep(Y) == Then(Y, colon(Y))
             val(Y) == Then(Y, scalar(Y, v))
         IN  val(sep(quote(X, k)))

\* func (b *buffer) pair(k string, v interface{})
pair(X, k, v) ==
    LET sep(Y) == Then(Y, colon(Y))
        val(Y) == Then(Y, scalar(Y, v))
    IN  val(sep(quote(X, k)))

\* The loop of pairs() from index i.
pairsFrom(X, m, i) ==
    IF i > Len(m.keys) THEN X
    ELSE LET rest(Y) == Then(Y, pairsFrom(Y, m, i + 1))
         IN  rest(pair(X, m.keys[i], m.vals[i]))

\* func (b *buffer) pairs(m AMap)
pairs(X, m) == IF ~ m.isnil THEN pairsFrom(X, m, 1) ELSE X

\* The loop of the RawMap case; i is the 0-based index of the source.
rawMapFrom(X, v, i) ==
    IF i >= Len(v) THEN X
    ELSE LET sep(Y) == Then(Y, colon(Y))
             rest(Y) == Then(Y, rawMapFrom(Y, v, i + 1))
         IN  rest(IF 0 = i % 2 THEN sep(quote(X, S(v[i + 1])))
                  ELSE scalar(X, v[i + 1]))

\* for _, k := range keys { b.pair(k, v[k]) }
pairEach(X, keys, val) ==
    IF keys = << >> THEN X
    ELSE LET rest(Y) == Then(Y, pairEach(Y, Tail(keys), val))
         IN  rest(pair(X, Head(keys), val[Head(keys)]))

\* The second type switch of scalar().
scalarCase(X, v) ==
    CASE v.t = "nil"    -> write(X, << << Ch.n, Ch.u, Ch.l, Ch.l >> >>)
      [] v.t = "string" -> quote(X, v.s)
      [] v.t = "bytes"  -> quoteBytes(X, v.s)
      [] v.t = "int"    -> appendTo(X, FormatInt(v.n))
      [] v.t = "uint"   -> appendTo(X, Digits(v.n))
      [] v.t = "float"  -> appendTo(X, v.repr)
      [] v.t = "bool"   ->
            IF v.v THEN write(X, << << Ch.t, Ch.r, Ch.u, Ch.e >> >>)
            ELSE write(X, << << Ch.f, Ch.a, Ch.l, Ch.s, Ch.e >> >>)
      [] v.t = "strings" ->
            LET each(Y) == Then(Y, scalarEach(Y, [ i \in 1..Len(v.elts) |->
                                                      VStr(v.elts[i]) ]))
                shut(Y) == Then(Y, close(Y, << Ch.rbk >>))
            IN  shut(each(open(X, << Ch.lbk >>)))
      [] v.t = "AList"  ->
            LET each(Y) == Then(Y, scalarEach(Y, v.elts))
                shut(Y) == Then(Y, close(Y, << Ch.rbk >>))
            IN  shut(each(open(X, << Ch.lbk >>)))
      [] v.t = "RawMap" ->
            LET each(Y) == Then(Y, rawMapFrom(Y, v.elts, 0))
                odd(Y)  == Then(Y, IF 1 = Len(v.elts) % 2
                                   THEN scalar(Y, VNil) ELSE Y)
                shut(Y) == Then(Y, close(Y, << Ch.rbr >>))
            IN  shut(odd(each(open(X, << Ch.lbr >>))))
      [] v.t = "AMap"   ->
            LET each(Y) == Then(Y, pairs(Y, v))
                shut(Y) == Then(Y, close(Y, << Ch.rbr >>))
            IN  shut(each(open(X, << Ch.lbr >>)))
      [] v.t = "map"    ->
            LET each(Y) == Then(Y, pairEach(Y, sortStrings(v.order), v.val))
                shut(Y) == Then(Y, close(Y, << Ch.rbr >>))
            IN  shut(each(open(X, << Ch.lbr >>)))
      [] v.t = "error"  -> quote(X, v.msg)
      [] OTHER          ->
            IF v.failed
            THEN quote(X, << Ch.bang, Ch.sp >> \o v.errmsg)
            ELSE writeBytes(X, v.json)

\* scalar() without the final b.delim = comma.
scalarKeep(X, v) ==
    IF v.t = "AMap" /\ (v.isnil \/ 0 = Len(v.keys))
    THEN X
    ELSE LET room(Y) == Then(Y, IF Y.cap < Len(Y.buf) + Headroom
                                 THEN [ lock(Y) EXCEPT !.tight = TRUE ]
                                 ELSE Y)
             body(Y) == Then(Y, scalarCase(Y, v))
         IN  body(room([ write(X, << X.delim >>) EXCEPT !.delim = empty ]))

\* scalar() that does not ask for headroom before it formats.
scalarNoRoom(X, v) ==
    IF v.t = "AMap" /\ (v.isnil \/ 0 = Len(v.keys))
    THEN X
    ELSE LET body(Y) == Then(Y, scalarCase(Y, v))
             setd(Y) == Then(Y, [ Y EXCEPT !.delim = comma ])
         IN  setd(body([ write(X, << X.delim >>) EXCEPT !.delim = empty ]))

\* func (b *buffer) scalar(s interface{})
scalar(X, v) ==
    IF v.t = "AMap" /\ (v.isnil \/ 0 = Len(v.keys))
    THEN X
    ELSE LET room(Y) == Then(Y, IF Y.cap < Len(Y.buf) + Headroom
                                 THEN [ lock(Y) EXCEPT !.tight = TRUE ]
                                 ELSE Y)
             body(Y) == Then(Y, scalarCase(Y, v))
             setd(Y) == Then(Y, [ Y EXCEPT !.delim = comma ])
         IN  setd(body(room([ write(X, << X.delim >>)
                                  EXCEPT !.delim = empty ])))

(***************************************************************************)
(* State.                                                                  *)
(*   bufs[b]    fields of buffer b                                         *)
(*   status[b]  "new" (never allocated), "pooled" (in bufPool) or "inuse"  *)
(*   outMu      0 when the mutex is free, else the buffer whose lock()     *)
(*              acquired it                                                *)
(*   out        the output stream: the sequence of write calls it received *)
(* History kept for stating properties:                                    *)
(*   fed[b]     bytes the caller passed to write/writeBytes on the current *)
(*              line of b                                                  *)
(*   used[b]    names of the handlers run on the current line, with        *)
(*              "headroom" when scalar() found less than its headroom free *)
(*              and "emptymap" when a value held an empty or absent AMap   *)
(*   nops[b]    number of handlers run on the current line                 *)
(*   lineOf[b]  number of the line b composes (0 before the first)         *)
(*   nlines     lines started so far                                       *)
(*   last       the handler that ran last, its buffer and its argument,    *)
(*              and whether it called outMu.Lock() / outMu.Unlock()        *)
(*   ret        the last call of a function that is no method of the       *)
(*              buffer: its name, its argument and what it returned        *)
(***************************************************************************)
VARIABLES bufs, status, outMu, out, fed, used, nops, lineOf, nlines, last,
          ret

vars == << bufs, status, outMu, out, fed, used, nops, lineOf, nlines, last,
          ret >>

\* Bytes of payload: position i of a line carries Payload[(i % 3) + 1], so
\* that loss, duplication and reordering of bytes all change the line.
Payload == << Ch.x, Ch.y, Ch.z >>

Chunk(from, len) == [ i \in 1..len |-> Payload[((from + i) % 3) + 1] ]

\* The write calls ws of a handler of buffer b as the stream receives them;
\* mu tells whether b owned the mutex at the call.
Stamp(ws, b, ln) ==
    [ i \in 1..Len(ws) |->
        [ by |-> b, line |-> ln, bytes |-> ws[i].bytes, held |-> ws[i].held,
          mu |-> (outMu = b \/ ws[i].acq) /\ ~ ws[i].rel,
          final |-> ws[i].final, err |-> ws[i].err ] ]

\* Commit a handler run on buffer b: block on the mutex when the handler
\* calls outMu.Lock(), pass its writes to the stream, keep its fields.
Commit(b, X) ==
    /\ X.acq => outMu = 0
    /\ outMu' = IF X.rel THEN 0 ELSE IF X.acq THEN b ELSE outMu
    /\ out' = out \o Stamp(X.ws, b, lineOf[b])
    /\ bufs' = [ bufs EXCEPT ![b] = Leave(X) ]
    /\ UNCHANGED ret

Ran(name, b, arg, X) ==
    [ op |-> name, b |-> b, arg |-> arg, acq |-> X.acq, rel |-> X.rel ]

Init ==
    /\ bufs = [ b \in Bufs |-> bufPoolNew ]
    /\ status = [ b \in Bufs |-> "new" ]
    /\ outMu = 0
    /\ out = << >>
    /\ fed = [ b \in Bufs |-> << >> ]
    /\ used = [ b \in Bufs |-> {} ]
    /\ nops = [ b \in Bufs |-> 0 ]
    /\ lineOf = [ b \in Bufs |-> 0 ]
    /\ nlines = 0
    /\ last = [ op |-> "init", b |-> 0, arg |-> << >>, acq |-> FALSE,
                rel |-> FALSE ]
    /\ ret = [ fn |-> "", arg |-> << >>, val |-> "" ]

\* acquire() that leaves the pending delimiter of a reused buffer as it is.
AcquireStale(b, max, fresh) ==
    /\ status[b] \in { "new", "pooled" }
    /\ nlines < max
    /\ status' = [ status EXCEPT ![b] = "inuse" ]
    /\ bufs' = [ bufs EXCEPT ![b] =
                   (IF status[b] = "new" THEN fresh ELSE bufs[b]) ]
    /\ nlines' = nlines + 1
    /\ lineOf' = [ lineOf EXCEPT ![b] = nlines + 1 ]
    /\ fed' = [ fed EXCEPT ![b] = << >> ]
    /\ used' = [ used EXCEPT ![b] = {} ]
    /\ nops' = [ nops EXCEPT ![b] = 0 ]
    /\ last' = [ op |-> "acquire", b |-> b, arg |-> << >>, acq |-> FALSE,
                 rel |-> FALSE ]
    /\ UNCHANGED << outMu, out, ret >>

\* acquire(): bufPool.Get() returns a pooled buffer or a new one; the
\* caller starts the line with an empty pending delimiter.
AcquireNew(b, max, fresh) ==
    /\ status[b] \in { "new", "pooled" }
    /\ nlines < max
    /\ status' = [ status EXCEPT ![b] = "inuse" ]
    /\ bufs' = [ bufs EXCEPT ![b] =
                   [ (IF status[b] = "new" THEN fresh ELSE bufs[b])
                     EXCEPT !.delim = empty ] ]
    /\ nlines' = nlines + 1
    /\ lineOf' = [ lineOf EXCEPT ![b] = nlines + 1 ]
    /\ fed' = [ fed EXCEPT ![b] = << >> ]
    /\ used' = [ used EXCEPT ![b] = {} ]
    /\ nops' = [ nops EXCEPT ![b] = 0 ]
    /\ last' = [ op |-> "acquire", b |-> b, arg |-> << >>, acq |-> FALSE,
                 rel |-> FALSE ]
    /\ UNCHANGED << outMu, out, ret >>

AcquireUpTo(b, max) == AcquireNew(b, max, bufPoolNew)

Acquire(b) == AcquireUpTo(b, MaxLines)

\* A value with an empty or absent AMap in it.
RECURSIVE HasEmptyMap(_)
HasEmptyMap(v) ==
    CASE v.t = "AMap" ->
            \/ v.isnil
            \/ 0 = Len(v.keys)
            \/ \E i \in 1..Len(v.vals) : HasEmptyMap(v.vals[i])
      [] v.t \in { "AList", "RawMap" } ->
            \E i \in 1..Len(v.elts) : HasEmptyMap(v.elts[i])
      [] v.t = "map" -> \E k \in v.keyset : HasEmptyMap(v.val[k])
      [] OTHER -> FALSE

\* A handler run on the current line of b, called with arg; notes are the
\* marks it leaves in used[b].
Handler(b, X, name, arg, notes) ==
    /\ status[b] = "inuse"
    /\ Commit(b, X)
    /\ used' = [ used EXCEPT ![b] =
                   @ \cup { name } \cup notes
                     \cup (IF X.tight THEN { "headroom" } ELSE {}) ]
    /\ nops' = [ nops EXCEPT ![b] = @ + 1 ]
    /\ last' = Ran(name, b, arg, X)
    /\ status' = IF X.panicked THEN [ status EXCEPT ![b] = "aborted" ]
                 ELSE status
    /\ UNCHANGED << lineOf, nlines >>

\* writeBytes(s) on a stream that fails the calls in fail.
WriteBytesOn(b, s, fail) ==
    /\ Handler(b, writeBytes(Failing(bufs[b], fail), s), "writeBytes", s, {})
    /\ fed' = [ fed EXCEPT ![b] = @ \o s ]

WriteBytes(b, s) == WriteBytesOn(b, s, {})

WriteOn(b, strs, fail) ==
    /\ Handler(b, write(Failing(bufs[b], fail), strs), "write", strs, {})
    /\ fed' = [ fed EXCEPT ![b] = @ \o Concat(strs) ]

Write(b, strs) == WriteOn(b, strs, {})

Open(b, punct) ==
    /\ Handler(b, open(Enter(bufs[b]), punct), "open", punct, {})
    /\ UNCHANGED fed

Colon(b) ==
    /\ Handler(b, colon(Enter(bufs[b])), "colon", << >>, {})
    /\ UNCHANGED fed

Close(b, punct) ==
    /\ Handler(b, close(Enter(bufs[b]), punct), "close", punct, {})
    /\ UNCHANGED fed

Escape(b, s) ==
    /\ Handler(b, escape(Enter(bufs[b]), s), "escape", s, {})
    /\ UNCHANGED fed

EscapeBytes(b, s) ==
    /\ Handler(b, escapeBytes(Enter(bufs[b]), s), "escapeBytes", s, {})
    /\ UNCHANGED fed

Quote(b, s) ==
    /\ Handler(b, quote(Enter(bufs[b]), s), "quote", s, {})
    /\ UNCHANGED fed

Pair(b, k, v) ==
    /\ Handler(b, pair(Enter(bufs[b]), k, v), "pair", << k, v >>,
               IF HasEmptyMap(v) THEN { "emptymap" } ELSE {})
    /\ UNCHANGED fed

Timestamp(b, now) ==
    /\ Handler(b, timestamp(Enter(bufs[b]), now), "timestamp", now, {})
    /\ UNCHANGED fed

Scalar(b, v) ==
    /\ Handler(b, scalar(Enter(bufs[b]), v), "scalar", v,
               IF HasEmptyMap(v) THEN { "emptymap" } ELSE {})
    /\ UNCHANGED fed

\* release(): b.unlock(), then bufPool.Put(b).
ReleaseOn(b, fail) ==
    /\ status[b] = "inuse"
    /\ Commit(b, unlock(Failing(bufs[b], fail)))
    /\ status' = [ status EXCEPT ![b] = "pooled" ]
    /\ last' = Ran("release", b, << >>, unlock(Failing(bufs[b], fail)))
    /\ UNCHANGED << fed, used, nops, lineOf, nlines >>

Release(b) == ReleaseOn(b, {})

(***************************************************************************)
(* Concurrent composition: every buffer of the pool composes lines, with   *)
(* chunks and strings of the lengths of ChunkLens and an integer scalar.   *)
(***************************************************************************)
Next ==
    \E b \in Bufs :
        \/ Acquire(b)
        \/ /\ nops[b] < MaxOps
           /\ \/ \E len \in ChunkLens : WriteBytes(b, Chunk(Len(fed[b]), len))
              \/ \E l2 \in { 0, ScratchCap } :
                    Write(b, << Chunk(Len(fed[b]), 1),
                                Chunk(Len(fed[b]) + 1, l2) >>)
              \/ Scalar(b, VInt(7))
        \/ Release(b)

Spec == Init /\ [][Next]_vars

(***************************************************************************)
(* One caller composing one line from chunks and strings of every length   *)
(* up to one more than the scratch capacity.                               *)
(***************************************************************************)
MaxLineOps == 4

NextLine ==
    \/ AcquireUpTo(1, 1)
    \/ /\ nops[1] < MaxLineOps
       /\ \/ \E len \in 0..MaxChunk : WriteBytes(1, Chunk(Len(fed[1]), len))
          \/ \E len \in 0..MaxChunk : Write(1, << Chunk(Len(fed[1]), len) >>)
          \/ \E l2 \in { 1, ScratchCap } :
                Write(1, << Chunk(Len(fed[1]), 2),
                            Chunk(Len(fed[1]) + 2, l2) >>)
    \/ Release(1)

SpecLine == Init /\ [][NextLine]_vars

(***************************************************************************)
(* One caller composing one line with every handler and every shape of     *)
(* value.                                                                  *)
(***************************************************************************)
KeyA == << Ch.a >>

KeyB == << Ch.b >>

\* A string with a quote in it: x"y
StrQ == << Ch.x, Ch.dq, Ch.y >>

AMapEmpty == VAMap(<< >>, << >>)

EncValues ==
    << VNil, VStr(StrQ), VStr(<< >>), VBytes(<< Ch.x, 10 >>),
       VInt(7), VInt(0 - 12), VUint(5),
       VFloat(<< Ch.zero, Ch.dot, Ch.zero + 1 >>), VBool(TRUE), VBool(FALSE),
       VStrings(<< >>), VStrings(<< KeyA, KeyB >>),
       VAList(<< VInt(1), VStr(KeyA) >>),
       VRawMap(<< VStr(KeyA), VInt(5) >>),
       VRawMap(<< VStr(KeyA), VInt(5), VStr(KeyB) >>),
       VAMapNil, AMapEmpty,
       VAMap(<< KeyA, KeyB >>, << VInt(1), VStr(StrQ) >>),
       VAMap(<< KeyA, KeyB >>, << AMapEmpty, VInt(2) >>),
       VMap(<< KeyB, KeyA >>, [ k \in { KeyA, KeyB } |->
                                 IF k = KeyA THEN VInt(2) ELSE VInt(1) ]),
       VError(<< Ch.e >>),
       VOther(<< Ch.lbk, Ch.zero + 1, Ch.rbk >>, FALSE, << >>),
       VOther(<< >>, TRUE, << Ch.e >>) >>

\* Values tried as the value of a pair.
PairValues ==
    << VNil, VInt(7), VStrings(<< KeyA >>), AMapEmpty,
       VAMap(<< KeyA >>, << VInt(1) >>) >>

Puncts == << << Ch.lbk >>, << Ch.lbr >> >>

Closers == << << Ch.rbk >>, << Ch.rbr >> >>

MaxEncOps == 3

NextEnc ==
    \/ AcquireUpTo(1, 1)
    \/ /\ nops[1] < MaxEncOps
       /\ \/ \E len \in { 1, ScratchCap - 1 } :
                WriteBytes(1, Chunk(Len(fed[1]), len))
          \/ Write(1, << Chunk(Len(fed[1]), 1), Chunk(Len(fed[1]) + 1, 1) >>)
          \/ \E i \in 1..Len(Puncts) : Open(1, Puncts[i])
          \/ Colon(1)
          \/ \E i \in 1..Len(Closers) : Close(1, Closers[i])
          \/ Quote(1, KeyA)
          \/ \E i \in 1..Len(PairValues) : Pair(1, KeyB, PairValues[i])
          \/ \E i \in 1..Len(EncValues) : Scalar(1, EncValues[i])
    \/ Release(1)

SpecEnc == Init /\ [][NextEnc]_vars

(***************************************************************************)
(* One caller composing one line of brackets and pairs, with keys that     *)
(* need escaping and values that are empty or absent maps.                 *)
(***************************************************************************)
PairKeys == << KeyA, KeyB, StrQ >>

PairVals == PairValues \o << VAMapNil >>

MaxPairOps == 3

NextPair ==
    \/ AcquireUpTo(1, 1)
    \/ /\ nops[1] < MaxPairOps
       /\ \/ \E i \in 1..Len(Puncts) : Open(1, Puncts[i])
          \/ \E i \in 1..Len(Closers) : Close(1, Closers[i])
          \/ \E i \in 1..Len(PairKeys) : \E j \in 1..Len(PairVals) :
                Pair(1, PairKeys[i], PairVals[j])
    \/ Release(1)

SpecPair == Init /\ [][NextPair]_vars

(***************************************************************************)
(* One caller encoding one value on a line, at every fill level of the     *)
(* scratch: the value is any of the shapes of the type switch of scalar(), *)
(* with containers of up to MaxElts elements and nesting of depth three.   *)
(***************************************************************************)
MaxElts == 2

SeqsUpTo(base, n) == UNION { [ 1..k -> base ] : k \in 0..n }

ValAtoms ==
    { VNil, VStr(StrQ), VBytes(<< Ch.x, 10 >>), VInt(1), VInt(0 - 12),
      VBool(TRUE) }

ValLeaves == ValAtoms \cup { AMapEmpty, VAMapNil }

ValStrings == { VStrings(q) : q \in SeqsUpTo({ KeyA, StrQ }, MaxElts) }

ValLists == { VAList(q) : q \in SeqsUpTo(ValLeaves, MaxElts) }

RawKeys == { VStr(KeyA), VStr(KeyB) }

ValRawMaps ==
    { VRawMap(q) :
        q \in { r \in SeqsUpTo(RawKeys \cup ValLeaves, MaxElts + 1) :
                  \A i \in DOMAIN r :
                      IF i % 2 = 1 THEN r[i] \in RawKeys
                      ELSE r[i] \in ValLeaves } }

ValAMaps ==
    UNION { { VAMap(ks, vs) : ks \in [ 1..n -> { KeyA, KeyB } ],
                              vs \in [ 1..n -> ValLeaves ] } :
            n \in 1..MaxElts }

MapKeys == { KeyA, KeyB, << Ch.a, Ch.b >>, << >> }

MapOrders ==
    { o \in SeqsUpTo(MapKeys, MaxElts + 1) :
        \A i \in DOMAIN o : \A j \in DOMAIN o : i # j => o[i] # o[j] }

ValMaps ==
    UNION { { VMap(o, val) :
                val \in [ { o[i] : i \in DOMAIN o } -> { VInt(1), AMapEmpty } ] } :
            o \in MapOrders }

ValInner ==
    { VStrings(<< KeyA >>), VAList(<< VNil, VBool(TRUE) >>),
      VRawMap(<< VStr(KeyB) >>), VAMap(<< KeyB >>, << VInt(1) >>),
      VAMap(<< KeyB >>, << AMapEmpty >>),
      VMap(<< KeyB, KeyA >>, [ k \in { KeyA, KeyB } |-> VNil ]) }

ValNested ==
    { VAList(<< c, d >>) : c \in ValInner, d \in ValInner }
    \cup { VAMap(<< KeyA, KeyB >>, << c, d >>) :
             c \in ValInner, d \in ValInner \cup { VInt(1) } }
    \cup { VRawMap(<< VStr(KeyA), c >>) : c \in ValInner }
    \cup { VMap(<< KeyA >>, [ k \in { KeyA } |-> c ]) : c \in ValInner }
    \cup { VAList(<< VAMap(<< KeyA >>, << VAList(<< c >>) >>) >>) :
             c \in ValInner }

Values ==
    ValAtoms \cup ValStrings \cup ValLists \cup ValRawMaps \cup ValAMaps
    \cup ValMaps \cup ValNested

NextVal ==
    \/ AcquireUpTo(1, 1)
    \/ /\ nops[1] = 0
       /\ \E len \in 1..ScratchCap : WriteBytes(1, Chunk(0, len))
    \/ /\ "scalar" \notin used[1]
       /\ \E v \in Values : Scalar(1, v)
    \/ Release(1)

SpecVal == Init /\ [][NextVal]_vars

(***************************************************************************)
(* Vocabulary of the properties.                                           *)
(***************************************************************************)
\* The write calls the stream received for line ln, in order.
LineRecs(ln) == SelectSeq(out, LAMBDA r : r.line = ln)

BytesOf(recs) == Concat([ i \in 1..Len(recs) |-> recs[i].bytes ])

\* What buffer b has written of its line so far.
Written(b) == BytesOf(LineRecs(lineOf[b]))

\* The line of b so far: what it wrote and what it still holds.
Emitted(b) == Written(b) \o bufs[b].buf

\* b has finished a line and is back in the pool.
Released(b) == status[b] = "pooled"

\* The step is a handler run on the line of b / the release of b.
HandlerStep(b) == nops'[b] = nops[b] + 1

ReleaseStep(b) == status[b] = "inuse" /\ status'[b] = "pooled"

\* The write calls the step added to the stream.
NewRecs == SubSeq(out', Len(out) + 1, Len(out'))

\* The flush of what b held before the step, if it held anything.
FlushOf(b) == IF bufs[b].buf # << >> THEN << bufs[b].buf >> ELSE << >>

ChunksOf(recs) == [ i \in 1..Len(recs) |-> recs[i].bytes ]

\* Total length of line ln: what was written and what its buffer holds.
LineLen(ln) ==
    Len(BytesOf(LineRecs(ln)))
    + (IF \E b \in Bufs : status[b] = "inuse" /\ lineOf[b] = ln
       THEN Len(bufs[CHOOSE b \in Bufs :
                       status[b] = "inuse" /\ lineOf[b] = ln].buf)
       ELSE 0)

(***************************************************************************)
(* C1.  The writes of a line longer than the scratch capacity reach the    *)
(* stream as one contiguous block: no write of another line lands between  *)
(* two writes of such a line.                                              *)
(***************************************************************************)
C1_NoInterleaving ==
    \A i \in DOMAIN out : \A k \in DOMAIN out :
        ( /\ i < k
          /\ out[i].line = out[k].line
          /\ LineLen(out[i].line) > ScratchCap )
        => \A j \in i..k : out[j].line = out[i].line

(***************************************************************************)
(* C2.  At most one buffer has its locked flag set, and a buffer's flag is *)
(* set exactly when that buffer owns the output mutex.                     *)
(***************************************************************************)
C2_OneHolder ==
    /\ Cardinality({ b \in Bufs : bufs[b].locked }) <= 1
    /\ \A b \in Bufs : bufs[b].locked <=> outMu = b

\* One buffer holds the mutex while another composes a line with bytes
\* buffered.
C2_Witness ==
    \E b \in Bufs : \E c \in Bufs :
        /\ b # c
        /\ bufs[b].locked
        /\ status[c] = "inuse"
        /\ bufs[c].buf # << >>

(***************************************************************************)
(* C3.  Every write that reaches the stream before release() is made by a  *)
(* buffer that owns the output mutex; a buffer that owns it keeps it until *)
(* its release(); and release() of a line that flushed early writes the    *)
(* remainder while the mutex is still owned.                               *)
(***************************************************************************)
C3_HeldUntilRelease ==
    /\ [](\A i \in DOMAIN out :
            /\ ~ out[i].final => out[i].mu /\ out[i].held
            /\ ( out[i].final
                 /\ \E j \in 1..(i - 1) : out[j].line = out[i].line )
               => out[i].mu)
    /\ [][\A b \in Bufs : (outMu = b /\ outMu' # b) => ReleaseStep(b)]_vars

\* A line flushed early, and its release wrote a remainder.
C3_Witness ==
    \E i \in DOMAIN out : \E j \in DOMAIN out :
        /\ i < j
        /\ out[i].line = out[j].line
        /\ ~ out[i].final
        /\ out[j].final
        /\ last.op = "release"
        /\ last.rel

(***************************************************************************)
(* C4.  As claimed: a released line whose total length fits the scratch    *)
(* capacity reached the stream in exactly one write call, made by          *)
(* release(), without the buffer ever owning the output mutex.             *)
(***************************************************************************)
OneWrite(b) ==
    LET recs == LineRecs(lineOf[b])
    IN  /\ Len(recs) = 1
        /\ recs[1].final
        /\ ~ recs[1].held
        /\ ~ recs[1].mu

C4_Original ==
    \A b \in Bufs :
        (Released(b) /\ Len(Emitted(b)) <= ScratchCap) => OneWrite(b)

(***************************************************************************)
(* C4, amended.  A released line that is not empty, whose total length     *)
(* fits the scratch capacity and on which every run of the scalar encoder  *)
(* found its headroom free, reached the stream in exactly one write call,  *)
(* made by release(), without the buffer ever owning the output mutex.     *)
(***************************************************************************)
C4_Fits ==
    \A b \in Bufs :
        ( /\ Released(b)
          /\ 0 < Len(Emitted(b))
          /\ Len(Emitted(b)) <= ScratchCap
          /\ "headroom" \notin used[b] )
        => OneWrite(b)

\* A line of an append, a structural and a scalar handler that fits.
C4_Witness ==
    /\ Released(1)
    /\ { "writeBytes", "open", "scalar" } \subseteq used[1]
    /\ Len(Emitted(1)) <= ScratchCap
    /\ "headroom" \notin used[1]
    /\ OneWrite(1)

(***************************************************************************)
(* C5.  For a line composed of chunks only, the bytes written and held are *)
(* at every moment the chunks appended so far, in order; after release()   *)
(* the concatenation of the write calls is the concatenation of the        *)
(* chunks.                                                                 *)
(***************************************************************************)
C5_Faithful ==
    \A b \in Bufs :
        used[b] \subseteq { "write", "writeBytes" } =>
            /\ Emitted(b) = fed[b]
            /\ Released(b) => Written(b) = fed[b]

\* A released line of chunks that took three write calls or more, one of
\* them a chunk larger than the scratch.
C5_Witness ==
    /\ Released(1)
    /\ Len(LineRecs(lineOf[1])) >= 3
    /\ \E i \in DOMAIN out : Len(out[i].bytes) > ScratchCap
    /\ Written(1) = fed[1]

(***************************************************************************)
(* C6.  Appending one chunk longer than the scratch capacity acquires the  *)
(* output mutex if the buffer does not hold it, flushes what is buffered,  *)
(* then passes the chunk to the stream in one write and leaves the cursor  *)
(* empty; a chunk no longer than the capacity is copied into the scratch   *)
(* and never written directly.                                             *)
(***************************************************************************)
OneChunk(l) ==
    \/ l.op = "writeBytes"
    \/ l.op = "write" /\ Len(l.arg) = 1

ChunkOf(l) == IF l.op = "write" THEN l.arg[1] ELSE l.arg

C6_Direct ==
    [][\A b \in Bufs :
         (HandlerStep(b) /\ OneChunk(last')) =>
            LET s == ChunkOf(last')
            IN  IF Len(s) > ScratchCap
                THEN /\ last'.acq <=> ~ bufs[b].locked
                     /\ outMu' = b
                     /\ bufs'[b].locked
                     /\ ChunksOf(NewRecs) = FlushOf(b) \o << s >>
                     /\ \A i \in 1..Len(NewRecs) : NewRecs[i].mu
                     /\ bufs'[b].buf = << >>
                ELSE \/ /\ NewRecs = << >>
                        /\ bufs'[b].buf = bufs[b].buf \o s
                     \/ /\ ChunksOf(NewRecs) = FlushOf(b)
                        /\ Len(bufs[b].buf) + Len(s) > ScratchCap
                        /\ bufs'[b].buf = s]_vars

\* An oversize chunk was appended to a buffer that held bytes: a flush and
\* a direct write.
C6_Witness ==
    /\ last.op = "writeBytes"
    /\ Len(last.arg) > ScratchCap
    /\ Len(out) >= 2
    /\ out[Len(out)].bytes = last.arg
    /\ out[Len(out) - 1].line = out[Len(out)].line
    /\ last.acq

(***************************************************************************)
(* C7.  release() writes what the buffer still holds, leaves the cursor    *)
(* empty and the flag cleared, and calls outMu.Unlock() exactly when the   *)
(* buffer owns the mutex; a line acquires the mutex at most once.          *)
(***************************************************************************)
C7_Release ==
    /\ [][\A b \in Bufs : ReleaseStep(b) =>
            /\ ChunksOf(NewRecs) = FlushOf(b)
            /\ bufs'[b].buf = << >>
            /\ ~ bufs'[b].locked
            /\ last'.rel <=> outMu = b
            /\ outMu' = IF outMu = b THEN 0 ELSE outMu]_vars
    /\ [][\A b \in Bufs : (HandlerStep(b) /\ last'.acq) =>
            \A i \in DOMAIN out :
                out[i].line = lineOf[b] => ~ out[i].mu]_vars

\* A line that flushed early more than once is released and gives the
\* mutex back while another buffer composes.
C7_Witness ==
    /\ last.op = "release"
    /\ last.rel
    /\ Len(SelectSeq(LineRecs(lineOf[last.b]), LAMBDA r : ~ r.final)) >= 2
    /\ \E c \in Bufs : c # last.b /\ status[c] = "inuse"

(***************************************************************************)
(* C8.  A buffer obtained from the pool, new or reused, has an empty       *)
(* cursor, an empty pending delimiter and a cleared flag.                  *)
(***************************************************************************)
C8_Ready ==
    \A b \in Bufs :
        (status[b] = "inuse" /\ nops[b] = 0) =>
            /\ bufs[b].buf = << >>
            /\ bufs[b].cap = ScratchCap
            /\ bufs[b].delim = empty
            /\ ~ bufs[b].locked

\* A buffer is reused whose previous line encoded a scalar and flushed
\* early under the mutex.
C8_Witness ==
    /\ last.op = "acquire"
    /\ \E i \in DOMAIN out : \E j \in DOMAIN out :
          /\ out[i].by = last.b
          /\ out[i].line < lineOf[last.b]
          /\ out[i].held
          /\ out[j].by = last.b
          /\ out[j].line = out[i].line
          /\ \E n \in DOMAIN out[j].bytes : out[j].bytes[n] = Ch.zero + 7

(***************************************************************************)
(* C9.  As claimed: after the scalar encoder returns, for any value, the   *)
(* pending delimiter is the comma separator.                               *)
(***************************************************************************)
C9_Original ==
    last.op = "scalar" => bufs[last.b].delim = comma

IsEmptyMap(v) == v.t = "AMap" /\ (v.isnil \/ 0 = Len(v.keys))

(***************************************************************************)
(* C9, amended.  After the scalar encoder returns for any value other than *)
(* an empty or absent AMap the pending delimiter is the comma separator;   *)
(* for an empty or absent AMap it returns with the pending delimiter and   *)
(* the line as they were.                                                  *)
(***************************************************************************)
C9_Amended ==
    [][\A b \in Bufs :
         (HandlerStep(b) /\ last'.op = "scalar") =>
            IF IsEmptyMap(last'.arg)
            THEN bufs'[b] = bufs[b] /\ out' = out
            ELSE bufs'[b].delim = comma]_vars

\* The encoder returned for a byte slice, called with an empty pending
\* delimiter (right after an opening bracket).
C9_Witness ==
    /\ last.op = "scalar"
    /\ last.arg.t = "bytes"
    /\ used[1] = { "open", "scalar" }
    /\ nops[1] = 2
    /\ bufs[1].delim = comma

(***************************************************************************)
(* C10.  open(punct) emits the pending delimiter then punct and empties    *)
(* the pending delimiter; colon() emits ':' and empties it; close(punct)   *)
(* emits punct alone and sets it to the comma separator; and in a line of  *)
(* open, pair and close on values without empty maps a separator stands    *)
(* exactly between a completed value and the token that follows it.        *)
(***************************************************************************)
\* Length of the number or literal that starts at position i of line L.
RECURSIVE NumLen(_, _)
NumLen(L, i) ==
    IF i <= Len(L) /\ ( (L[i] >= Ch.zero /\ L[i] <= Ch.zero + 9)
                        \/ L[i] = Ch.minus \/ L[i] = Ch.dot )
    THEN 1 + NumLen(L, i + 1)
    ELSE 0

AtomLen(L, i) ==
    CASE L[i] = Ch.n -> 4
      [] L[i] = Ch.t -> 4
      [] L[i] = Ch.f -> 5
      [] OTHER -> NumLen(L, i)

\* Scan of line L from position i.  st tells what precedes: "start",
\* "open" (an opening bracket), "colon", "val" (a completed value), "cm"
\* (the first byte of a separator), "sep" (a separator), "str" (inside a
\* string), "esc" (after a backslash inside a string).
RECURSIVE SepScan(_, _, _)
SepScan(L, i, st) ==
    IF i > Len(L) THEN st \in { "start", "open", "colon", "val" }
    ELSE LET c == L[i]
         IN  CASE st = "str" ->
                    SepScan(L, i + 1, IF c = Ch.bsl THEN "esc"
                                      ELSE IF c = Ch.dq THEN "val"
                                      ELSE "str")
               [] st = "esc" -> SepScan(L, i + 1, "str")
               [] st = "cm" -> c = Ch.sp /\ SepScan(L, i + 1, "sep")
               [] OTHER ->
                    CASE c = Ch.cm -> st = "val" /\ SepScan(L, i + 1, "cm")
                      [] c = Ch.dq -> st # "val" /\ SepScan(L, i + 1, "str")
                      [] c \in { Ch.lbk, Ch.lbr } ->
                            st # "val" /\ SepScan(L, i + 1, "open")
                      [] c \in { Ch.rbk, Ch.rbr } ->
                            st # "sep" /\ SepScan(L, i + 1, "val")
                      [] c = Ch.col -> SepScan(L, i + 1, "colon")
                      [] OTHER ->
                            /\ st # "val"
                            /\ AtomLen(L, i) > 0
                            /\ SepScan(L, i + AtomLen(L, i), "val")

SepOK(L) == SepScan(L, 1, "start")

C10_Delims ==
    /\ [][\A b \in Bufs : HandlerStep(b) =>
            /\ last'.op = "open" =>
                  /\ Emitted(b)' = Emitted(b) \o bufs[b].delim \o last'.arg
                  /\ bufs'[b].delim = empty
            /\ last'.op = "colon" =>
                  /\ Emitted(b)' = Emitted(b) \o << Ch.col >>
                  /\ bufs'[b].delim = empty
            /\ last'.op = "close" =>
                  /\ Emitted(b)' = Emitted(b) \o last'.arg
                  /\ bufs'[b].delim = comma]_vars
    /\ [](\A b \in Bufs :
            used[b] \subseteq { "open", "pair", "close" } =>
                SepOK(Emitted(b)))

\* A container was opened, a pair written into it and a second pair after
\* it: the second key follows a completed value.
C10_Witness ==
    /\ used[1] = { "open", "pair" }
    /\ nops[1] = 3
    /\ last.op = "pair"
    /\ Len(Emitted(1)) > ScratchCap
    /\ SepOK(Emitted(1))
    /\ \E i \in 1..(Len(Emitted(1)) - 2) :
          /\ Emitted(1)[i] \in { Ch.zero + 7, Ch.dq, Ch.rbk, Ch.rbr, Ch.l }
          /\ Emitted(1)[i + 1] = Ch.cm
          /\ Emitted(1)[i + 2] = Ch.sp

(***************************************************************************)
(* The JSON string escape of one byte, as the escaping rules state it:     *)
(* two characters for the quote, the backslash and the five named control  *)
(* bytes, \u00XX in lowercase hexadecimal for any other byte below 0x20,   *)
(* the byte itself otherwise.                                              *)
(***************************************************************************)
HexLower(d) == IF d < 10 THEN Ch.zero + d ELSE Ch.a + (d - 10)

JsonEsc(c) ==
    IF c = 34 THEN << 92, 34 >>
    ELSE IF c = 92 THEN << 92, 92 >>
    ELSE IF c = 8 THEN << 92, 98 >>
    ELSE IF c = 12 THEN << 92, 102 >>
    ELSE IF c = 10 THEN << 92, 110 >>
    ELSE IF c = 13 THEN << 92, 114 >>
    ELSE IF c = 9 THEN << 92, 116 >>
    ELSE IF c < 32
         THEN << 92, 117, 48, 48, HexLower(c \div 16), HexLower(c % 16) >>
    ELSE << c >>

\* The escaped form of s between double quotes.
JsonString(s) ==
    << 34 >> \o Concat([ i \in 1..Len(s) |-> JsonEsc(s[i]) ]) \o << 34 >>

(***************************************************************************)
(* C11.  pair(k, v) with v an empty or absent AMap emits the pending       *)
(* delimiter, the quoted key and the colon and nothing else, and leaves    *)
(* the pending delimiter empty; the key quote of a pair that follows it    *)
(* comes right after that colon.                                           *)
(***************************************************************************)
C11_EmptyValue ==
    /\ [][\A b \in Bufs :
            ( /\ HandlerStep(b)
              /\ last'.op = "pair"
              /\ IsEmptyMap(last'.arg[2]) ) =>
                /\ Emitted(b)' = Emitted(b) \o bufs[b].delim
                                   \o JsonString(last'.arg[1]) \o << Ch.col >>
                /\ bufs'[b].delim = empty]_vars
    /\ [][\A b \in Bufs :
            ( /\ HandlerStep(b)
              /\ last.op = "pair"
              /\ last.b = b
              /\ IsEmptyMap(last.arg[2])
              /\ last'.op = "pair" ) =>
                /\ Emitted(b)[Len(Emitted(b))] = Ch.col
                /\ Len(Emitted(b)') > Len(Emitted(b))
                /\ SubSeq(Emitted(b)', 1, Len(Emitted(b)) + 1)
                      = Emitted(b) \o << Ch.dq >>]_vars

\* A pair with an absent map as its value was followed by a second pair:
\* the line holds a colon with the next key's quote right after it.
C11_Witness ==
    /\ used[1] = { "open", "pair", "emptymap" }
    /\ nops[1] = 3
    /\ last.op = "pair"
    /\ \E i \in 1..(Len(Emitted(1)) - 1) :
          /\ Emitted(1)[i] = Ch.col
          /\ Emitted(1)[i + 1] = Ch.dq
    /\ \E i \in DOMAIN out : out[i].line = lineOf[1]

(***************************************************************************)
(* The escaper on every byte, and on short strings of bytes of every       *)
(* class, at every fill level of the buffer.                               *)
(***************************************************************************)
MaxEscLen == 2

\* One byte or two of each class of the switch, and bytes at the edges of
\* the table.
EscBytes == { 0, 8, 9, 10, 12, 13, 31, 32, 34, 92, 120, 127, 128, 255 }

EscStrings ==
    { << c >> : c \in 0..255 } \cup SeqsUpTo(EscBytes, MaxEscLen)

NextEsc ==
    \/ AcquireUpTo(1, 1)
    \/ /\ nops[1] = 0
       /\ \E len \in 1..ScratchCap : WriteBytes(1, Chunk(0, len))
    \/ /\ used[1] \cap { "escape", "escapeBytes" } = {}
       /\ \E str \in EscStrings : Escape(1, str) \/ EscapeBytes(1, str)
    \/ Release(1)

SpecEsc == Init /\ [][NextEsc]_vars

(***************************************************************************)
(* GcpLevelName on level names.                                            *)
(***************************************************************************)
MaxNameLen == 2

\* The switch of GcpLevelName on c = lev[0], entered with sev.  A case
\* clause of Go does not fall through: a clause without statements, such
\* as "case 'P':", leaves sev as it was.
gcpSwitch(c, sev) ==
    CASE c = 80 -> sev
      [] c = 69 -> "Critical"
      [] c = 70 -> "Error"
      [] c = 87 -> "Warning"
      [] c = 78 -> "Notice"
      [] c = 65 -> sev
      [] c = 73 -> "Info"
      [] c = 84 -> sev
      [] c = 68 -> sev
      [] c = 79 -> sev
      [] c = 71 -> "Debug"
      [] OTHER -> sev

\* func GcpLevelName(lev string) string; lev[0] of an empty string is a
\* run-time panic.
GcpLevelName(lev) ==
    IF Len(lev) = 0 THEN "panic" ELSE gcpSwitch(lev[1], "Default")

\* Level names: the upper-case letters and two lower-case ones, alone or
\* followed by more letters.
NameBytes == (65..90) \cup { 101, 112 }

LevelNames == SeqsUpTo(NameBytes, MaxNameLen)

GcpCall(lev) ==
    /\ ret' = [ fn |-> "GcpLevelName", arg |-> lev,
                val |-> GcpLevelName(lev) ]
    /\ UNCHANGED << bufs, status, outMu, out, fed, used, nops, lineOf,
                    nlines, last >>

\* One call in a behaviour: the function keeps no state between calls.
NextGcp == ret.fn = "" /\ \E lev \in LevelNames : GcpCall(lev)

SpecGcp == Init /\ [][NextGcp]_vars

(***************************************************************************)
(* package grpc_lager: the payload-logging interceptor of unary calls.     *)
(***************************************************************************)
MaxPayload == 2

\* A payload is an interface{}: nil, a value that is a proto.Message, or a
\* value of some other type.
NilPayload == [ proto |-> FALSE, id |-> 0 ]

Payloads == { NilPayload } \cup [ proto : BOOLEAN, id : 1..MaxPayload ]

\* The errors a handler returns; "nil" is no error.
Errors == { "nil", "Canceled", "Internal" }

\* What the wrapped grpc.UnaryHandler returns for a call.
Outcomes == [ resp : Payloads, err : Errors ]

\* JSONPbFormatter.Format(p)
Format(p) == << "json", p.id >>

\* logger.MMap(msg, key, text): one record handed to the logger.
MMap(tr, key, text) == Append(tr, [ ev |-> "log", key |-> key, val |-> text ])

\* handler(ctx, req): one invocation of the wrapped handler.
Invoke(tr, req) == Append(tr, [ ev |-> "handler", key |-> "", val |-> req ])

\* func logProtoMessageAsJSON(logger, pbMsg, key, msg)
logProtoMessageAsJSON(tr, pbMsg, key) ==
    IF pbMsg.proto THEN MMap(tr, key, Format(pbMsg)) ELSE tr

\* The interceptor logging the response whatever the handler's error.
InterceptorAnyErr(decide, req, h) ==
    IF ~ decide
    THEN [ resp |-> h.resp, err |-> h.err, tr |-> Invoke(<< >>, req) ]
    ELSE LET t1 == logProtoMessageAsJSON(<< >>, req, "grpc.request.content")
             t2 == Invoke(t1, req)
         IN  [ resp |-> h.resp, err |-> h.err,
               tr |-> logProtoMessageAsJSON(t2, h.resp,
                                            "grpc.response.content") ]

\* The function PayloadUnaryServerInterceptor(decider) returns: decide is
\* what decider answers for the call, h what the wrapped handler returns.
\* The result is the pair returned and the calls made, in order.
PayloadUnaryServerInterceptor(decide, req, h) ==
    IF ~ decide
    THEN [ resp |-> h.resp, err |-> h.err, tr |-> Invoke(<< >>, req) ]
    ELSE LET t1 == logProtoMessageAsJSON(<< >>, req, "grpc.request.content")
             t2 == Invoke(t1, req)
         IN  [ resp |-> h.resp, err |-> h.err,
               tr |-> IF h.err = "nil"
                      THEN logProtoMessageAsJSON(t2, h.resp,
                                                 "grpc.response.content")
                      ELSE t2 ]

\* One unary call through the interceptor.
UnaryCall(decide, req, h) ==
    /\ ret' = [ fn |-> "PayloadUnaryServerInterceptor",
                arg |-> [ decide |-> decide, req |-> req, h |-> h ],
                val |-> PayloadUnaryServerInterceptor(decide, req, h) ]
    /\ UNCHANGED << bufs, status, outMu, out, fed, used, nops, lineOf,
                    nlines, last >>

\* One call in a behaviour: the interceptor keeps no state between calls.
NextGrpc ==
    /\ ret.fn = ""
    /\ \E decide \in BOOLEAN : \E req \in Payloads : \E h \in Outcomes :
          UnaryCall(decide, req, h)

SpecGrpc == Init /\ [][NextGrpc]_vars

(***************************************************************************)
(* Lines of one value each, on new and on reused buffers.                  *)
(***************************************************************************)
\* Values shorter and longer than the scratch, with and without a number
\* that strconv appends.
ReuseValues ==
    << VStr(StrQ), VInt(0 - 12), VStrings(<< KeyA, KeyB >>),
       VRawMap(<< VStr(KeyA), VInt(5), VStr(KeyB) >>),
       VAMap(<< KeyA, KeyB >>, << VInt(1), VStr(StrQ) >>), AMapEmpty >>

NextReuse ==
    \/ \E b \in Bufs : Acquire(b)
    \/ \E b \in Bufs :
          /\ nops[b] = 0
          /\ \E i \in 1..Len(ReuseValues) : Scalar(b, ReuseValues[i])
    \/ \E b \in Bufs : nops[b] = 1 /\ Release(b)

SpecReuse == Init /\ [][NextReuse]_vars

(***************************************************************************)
(* Callers that contend for the output mutex: every append of a line       *)
(* overflows the scratch, so that it needs the mutex unless the line       *)
(* already holds it, and a caller releases its line after MaxOps appends.  *)
(* sync.Mutex hands the mutex to a goroutine that has waited for it (its   *)
(* starvation mode), which is strong fairness of the blocked append; a     *)
(* caller that can call release() does.                                    *)
(***************************************************************************)
LiveStep(b) ==
    /\ nops[b] < MaxOps
    /\ \/ WriteBytes(b, Chunk(Len(fed[b]), MaxChunk))
       \/ Write(b, << Chunk(Len(fed[b]), 1),
                      Chunk(Len(fed[b]) + 1, ScratchCap) >>)

LiveRelease(b) == nops[b] = MaxOps /\ Release(b)

NextLive ==
    \/ \E b \in Bufs : Acquire(b)
    \/ \E b \in Bufs : LiveStep(b)
    \/ \E b \in Bufs : LiveRelease(b)

SpecLive ==
    /\ Init /\ [][NextLive]_vars
    /\ \A b \in Bufs : SF_vars(LiveStep(b)) /\ WF_vars(LiveRelease(b))

(***************************************************************************)
(* The same content as a string and as a byte slice, encoded at every fill *)
(* level of a buffer that holds the mutex or does not.                     *)
(***************************************************************************)
\* The contents of SpecEsc, and two that do not fit in the scratch.
EqStrings ==
    EscStrings
    \cup { Chunk(0, MaxChunk), << 34 >> \o Chunk(0, ScratchCap) \o << 10 >> }

NextEq ==
    \/ AcquireUpTo(1, 1)
    \/ /\ nops[1] = 0
       /\ WriteBytes(1, Chunk(0, MaxChunk))
    \/ /\ nops[1] <= 1 /\ bufs[1].buf = << >>
       /\ \E len \in 1..ScratchCap : WriteBytes(1, Chunk(Len(fed[1]), len))
    \/ /\ "scalar" \notin used[1]
       /\ \E str \in EqStrings :
             Scalar(1, VStr(str)) \/ Scalar(1, VBytes(str))
    \/ Release(1)

SpecEq == Init /\ [][NextEq]_vars

(***************************************************************************)
(* One line of chunks on a stream that may fail any of its write calls.    *)
(***************************************************************************)
MaxFailOps == 3

\* A handler of a chunk makes two write calls at most: the flush and the
\* chunk itself.
Failures == SUBSET { 1, 2 }

NextFail ==
    \/ AcquireUpTo(1, 1)
    \/ /\ nops[1] < MaxFailOps
       /\ \E len \in ChunkLens, fail \in Failures :
             \/ WriteBytesOn(1, Chunk(Len(fed[1]), len), fail)
             \/ WriteOn(1, << Chunk(Len(fed[1]), len) >>, fail)
    \/ \E fail \in Failures : ReleaseOn(1, fail)

SpecFail == Init /\ [][NextFail]_vars

(***************************************************************************)
(* Timestamps at every fill level.  The scratch region is scaled down to   *)
(* TimeScratch bytes, enough for a whole timestamp (26 bytes) and the 22   *)
(* bytes timestamp() asks for.                                             *)
(***************************************************************************)
TimeScratch == 30

\* Values of time.Now(): months, hours and milliseconds of one and of full
\* width.
Times ==
    [ yr : { 2026 }, mo : { 1, 12 }, day : { 9 }, hr : { 0, 23 },
      mi : { 5 }, sec : { 59 }, ms : { 7, 42, 123 } ]

NextTime ==
    \/ AcquireNew(1, 1, newBuffer(TimeScratch))
    \/ /\ nops[1] = 0
       /\ \E len \in 1..TimeScratch : WriteBytes(1, Chunk(0, len))
    \/ /\ "timestamp" \notin used[1]
       /\ \E now \in Times : Timestamp(1, now)
    \/ Release(1)

SpecTime == Init /\ [][NextTime]_vars

(***************************************************************************)
(* The text of a value, stated from the encoding rules: sep stands between *)
(* consecutive elements and members; an empty or absent AMap has no text,  *)
(* as an element it leaves no trace, and as the value of a member it       *)
(* leaves the key and the colon with no separator after them.              *)
(***************************************************************************)
RECURSIVE RefDec(_)
RefDec(n) ==
    IF n < 10 THEN << 48 + n >> ELSE RefDec(n \div 10) \o << 48 + (n % 10) >>

\* The strings of set keyset in ascending order: p precedes q when p is a
\* proper prefix of q or holds the lesser byte where they first differ.
LexLess(p, q) ==
    \E i \in 1..Len(q) :
        /\ \A j \in 1..(i - 1) : j <= Len(p) /\ p[j] = q[j]
        /\ i > Len(p) \/ p[i] < q[i]

RefSorted(keyset) ==
    CHOOSE q \in [ 1..Cardinality(keyset) -> keyset ] :
        \A i \in DOMAIN q : \A j \in DOMAIN q :
            i < j => LexLess(q[i], q[j])

RECURSIVE RefEnc(_, _)
RECURSIVE RefElems(_, _, _, _)
RECURSIVE RefMembers(_, _, _, _, _)

RefElems(elts, sep, i, first) ==
    IF i > Len(elts) THEN << >>
    ELSE IF IsEmptyMap(elts[i]) THEN RefElems(elts, sep, i + 1, first)
    ELSE (IF first THEN << >> ELSE sep) \o RefEnc(elts[i], sep)
         \o RefElems(elts, sep, i + 1, FALSE)

RefMembers(keys, vals, sep, i, needSep) ==
    IF i > Len(keys) THEN << >>
    ELSE (IF needSep THEN sep ELSE << >>)
         \o JsonString(keys[i]) \o << 58 >>
         \o (IF IsEmptyMap(vals[i]) THEN << >> ELSE RefEnc(vals[i], sep))
         \o RefMembers(keys, vals, sep, i + 1, ~ IsEmptyMap(vals[i]))

RefEnc(v, sep) ==
    CASE v.t = "nil" -> << 110, 117, 108, 108 >>
      [] v.t \in { "string", "bytes" } -> JsonString(v.s)
      [] v.t = "int" ->
            IF v.n < 0 THEN << 45 >> \o RefDec(0 - v.n) ELSE RefDec(v.n)
      [] v.t = "uint" -> RefDec(v.n)
      [] v.t = "bool" ->
            IF v.v THEN << 116, 114, 117, 101 >>
            ELSE << 102, 97, 108, 115, 101 >>
      [] v.t = "strings" ->
            << 91 >>
            \o RefElems([ i \in 1..Len(v.elts) |-> VStr(v.elts[i]) ],
                        sep, 1, TRUE)
            \o << 93 >>
      [] v.t = "AList" -> << 91 >> \o RefElems(v.elts, sep, 1, TRUE) \o << 93 >>
      [] v.t = "RawMap" ->
            LET n == (Len(v.elts) + 1) \div 2
            IN  << 123 >>
                \o RefMembers([ i \in 1..n |-> v.elts[2 * i - 1].s ],
                              [ i \in 1..n |-> IF 2 * i <= Len(v.elts)
                                               THEN v.elts[2 * i] ELSE VNil ],
                              sep, 1, FALSE)
                \o << 125 >>
      [] v.t = "AMap" ->
            IF IsEmptyMap(v) THEN << >>
            ELSE << 123 >> \o RefMembers(v.keys, v.vals, sep, 1, FALSE)
                 \o << 125 >>
      [] v.t = "map" ->
            LET keys == RefSorted(v.keyset)
            IN  << 123 >>
                \o RefMembers(keys, [ i \in DOMAIN keys |-> v.val[keys[i]] ],
                              sep, 1, FALSE)
                \o << 125 >>

\* What the scalar encoder added to the line of b: the line without the
\* chunk that was appended before it.
ValueText(b) == SubSeq(Emitted(b), Len(fed[b]) + 1, Len(Emitted(b)))

\* The encoder has just returned on the line of b, for a value of shape t.
Encoded(b, t) == last.op = "scalar" /\ last.b = b /\ last.arg.t = t

(***************************************************************************)
(* A recogniser of JSON texts: ValEnd(L, i) is the position after the      *)
(* value that starts at position i of L, or 0 when none starts there.      *)
(***************************************************************************)
IsDigit(c) == c >= 48 /\ c <= 57

IsHex(c) == IsDigit(c) \/ (c >= 97 /\ c <= 102) \/ (c >= 65 /\ c <= 70)

RECURSIVE SkipWs(_, _)
SkipWs(L, i) ==
    IF i <= Len(L) /\ L[i] \in { 32, 9, 10, 13 } THEN SkipWs(L, i + 1) ELSE i

\* From inside a string: the position after its closing quote.
RECURSIVE StrEnd(_, _)
StrEnd(L, i) ==
    IF i > Len(L) THEN 0
    ELSE IF L[i] = 34 THEN i + 1
    ELSE IF L[i] < 32 THEN 0
    ELSE IF L[i] # 92 THEN StrEnd(L, i + 1)
    ELSE IF i + 1 > Len(L) THEN 0
    ELSE IF L[i + 1] \in { 34, 92, 47, 98, 102, 110, 114, 116 }
         THEN StrEnd(L, i + 2)
    ELSE IF /\ L[i + 1] = 117
            /\ i + 5 <= Len(L)
            /\ \A k \in 2..5 : IsHex(L[i + k])
         THEN StrEnd(L, i + 6)
    ELSE 0

RECURSIVE DigitsEnd(_, _)
DigitsEnd(L, i) ==
    IF i <= Len(L) /\ IsDigit(L[i]) THEN DigitsEnd(L, i + 1) ELSE i

NumEnd(L, i) ==
    LET j == IF L[i] = 45 THEN i + 1 ELSE i
        k == DigitsEnd(L, j)
        m == DigitsEnd(L, k + 1)
    IN  IF k = j THEN 0
        ELSE IF k <= Len(L) /\ L[k] = 46
             THEN (IF m = k + 1 THEN 0 ELSE m)
             ELSE k

LitEnd(L, i, word) ==
    IF i + Len(word) - 1 <= Len(L) /\ SubSeq(L, i, i + Len(word) - 1) = word
    THEN i + Len(word)
    ELSE 0

RECURSIVE ValEnd(_, _)
RECURSIVE ElemsEnd(_, _)
RECURSIVE MembersEnd(_, _)

ElemsEnd(L, i) ==
    LET e == ValEnd(L, i)
    IN  IF e = 0 THEN 0
        ELSE LET j == SkipWs(L, e)
             IN  IF j > Len(L) THEN 0
                 ELSE IF L[j] = 93 THEN j + 1
                 ELSE IF L[j] = 44 THEN ElemsEnd(L, SkipWs(L, j + 1))
                 ELSE 0

MembersEnd(L, i) ==
    IF i > Len(L) \/ L[i] # 34 THEN 0
    ELSE LET k == StrEnd(L, i + 1)
             c == SkipWs(L, k)
             e == ValEnd(L, SkipWs(L, c + 1))
             j == SkipWs(L, e)
         IN  IF k = 0 THEN 0
             ELSE IF c > Len(L) \/ L[c] # 58 THEN 0
             ELSE IF e = 0 THEN 0
             ELSE IF j > Len(L) THEN 0
             ELSE IF L[j] = 125 THEN j + 1
             ELSE IF L[j] = 44 THEN MembersEnd(L, SkipWs(L, j + 1))
             ELSE 0

ValEnd(L, i) ==
    IF i > Len(L) THEN 0
    ELSE CASE L[i] = 34 -> StrEnd(L, i + 1)
           [] L[i] = 91 ->
                LET j == SkipWs(L, i + 1)
                IN  IF j <= Len(L) /\ L[j] = 93 THEN j + 1
                    ELSE ElemsEnd(L, j)
           [] L[i] = 123 ->
                LET j == SkipWs(L, i + 1)
                IN  IF j <= Len(L) /\ L[j] = 125 THEN j + 1
                    ELSE MembersEnd(L, j)
           [] L[i] = 110 -> LitEnd(L, i, << 110, 117, 108, 108 >>)
           [] L[i] = 116 -> LitEnd(L, i, << 116, 114, 117, 101 >>)
           [] L[i] = 102 -> LitEnd(L, i, << 102, 97, 108, 115, 101 >>)
           [] L[i] = 45 \/ IsDigit(L[i]) -> NumEnd(L, i)
           [] OTHER -> 0

\* L is exactly one JSON value.
JsonOK(L) == ValEnd(L, 1) = Len(L) + 1

\* C12 as stated: a non-empty ordered map is encoded as '{', its pairs in
\* insertion order, '}', each pair being the quoted key, ':' and the encoded
\* value, with exactly the single character ',' between consecutive pairs.
C12_Original ==
    \A b \in Bufs :
        Encoded(b, "AMap") => ValueText(b) = RefEnc(last.arg, << 44 >>)

\* C12 amended: a non-empty ordered map is encoded as '{', its pairs in
\* insertion order, '}', each pair being the quoted key, ':' and the encoded
\* value, with exactly the two characters ", " (comma, space) between
\* consecutive pairs; a pair whose value is an empty or absent ordered map
\* has no value and no separator after it.
C12_Insertion ==
    \A b \in Bufs :
        Encoded(b, "AMap") => ValueText(b) = RefEnc(last.arg, << 44, 32 >>)

\* The map a=1, b=x"y has been encoded after a chunk that left too little
\* room for it, and its text is {"a":1, "b":"x\"y"}.
C12_Witness ==
    /\ Encoded(1, "AMap")
    /\ last.arg = VAMap(<< KeyA, KeyB >>, << VInt(1), VStr(StrQ) >>)
    /\ Len(fed[1]) = ScratchCap - 1
    /\ ValueText(1) = << 123, 34, 97, 34, 58, 49, 44, 32, 34, 98, 34, 58,
                         34, 120, 92, 34, 121, 34, 125 >>

\* C13: a flat alternating list of any length is encoded as one object whose
\* keys are the quoted elements at even positions, each followed by a colon
\* and by the element after it as its value, in list order, with null as the
\* value of a trailing key; every emitted key is followed by exactly one
\* value, so the object is a JSON value.
C13_KeyValue ==
    \A b \in Bufs :
        Encoded(b, "RawMap") =>
            /\ ValueText(b) = RefEnc(last.arg, << 44, 32 >>)
            /\ JsonOK(ValueText(b))

\* C14: for every value of the supported shapes, what the scalar encoder
\* emits is a single well-formed JSON value.
C14_WellFormed ==
    \A b \in Bufs :
        (last.op = "scalar" /\ last.b = b) => JsonOK(ValueText(b))

\* C15: no operation aborts execution: at every fill level of the buffer,
\* from empty to full, and for every input, write, writeBytes, timestamp with
\* its two-digit and N-digit formatters, and release complete without an
\* out-of-range access to the scratch region.
C15_NoAbort ==
    \A b \in Bufs :
        /\ status[b] # "aborted"
        /\ Len(bufs[b].buf) <= bufs[b].cap

\* C16: a failed write to the stream is neither retried nor propagated.
\* Whatever calls fail, a handler of a chunk passes to the stream, once
\* each and in this order, the flush of what the buffer held (if it had to
\* flush) and the chunk (if it is written directly); after a write the
\* cursor is empty or holds just the chunk, in the scratch region; the line
\* stays in composition and loses or repeats no byte; and release() writes
\* what is left once, clears the flag and frees the mutex.
C16_NoRetry ==
    /\ [][\A b \in Bufs : (HandlerStep(b) /\ OneChunk(last')) =>
            /\ ChunksOf(NewRecs) \in
                   { << >>, FlushOf(b), << ChunkOf(last') >>,
                     FlushOf(b) \o << ChunkOf(last') >> }
            /\ NewRecs # << >> =>
                   /\ bufs'[b].buf \in { << >>, ChunkOf(last') }
                   /\ bufs'[b].cap = bufs'[b].scratch
                   /\ bufs'[b].locked /\ outMu' = b
            /\ status'[b] = "inuse"
            /\ Emitted(b)' = fed'[b]]_vars
    /\ [][\A b \in Bufs : ReleaseStep(b) =>
            /\ ChunksOf(NewRecs) = FlushOf(b)
            /\ Written(b)' = fed[b]
            /\ bufs'[b].buf = << >> /\ ~ bufs'[b].locked
            /\ outMu' = 0]_vars

\* A released line: one of its early writes failed under the mutex, more
\* chunks followed, the final write failed too, and the mutex is free.
C16_Witness ==
    /\ Released(1) /\ outMu = 0
    /\ nops[1] = MaxFailOps
    /\ Written(1) = fed[1]
    /\ \E i \in DOMAIN out : \E j \in DOMAIN out :
          /\ i < j /\ j < Len(out)
          /\ out[i].err /\ out[i].held /\ ~ out[j].err
          /\ out[Len(out)].final /\ out[Len(out)].err

\* C17: for every input the escaper emits, byte for byte in input order, the
\* two-character escape of a double quote, backslash, backspace, form feed,
\* newline, carriage return or tab, \u00XX with two lowercase hex digits
\* for any other byte below 0x20, and every other byte unchanged.
C17_Escaped ==
    \A b \in Bufs :
        (last.op \in { "escape", "escapeBytes" } /\ last.b = b) =>
            ValueText(b) =
                Concat([ i \in 1..Len(last.arg) |-> JsonEsc(last.arg[i]) ])

\* The bytes 0x1F and 0xFF have been escaped into a buffer with one byte
\* free, as \u001f and the byte 0xFF itself.
C17_Witness ==
    /\ last.op = "escape" /\ last.b = 1
    /\ last.arg = << 31, 255 >>
    /\ Len(fed[1]) = ScratchCap - 1
    /\ ValueText(1) = << 92, 117, 48, 48, 49, 102, 255 >>

\* What a line made of the value v alone sends to the stream when it is
\* composed on a new buffer.
FreshText(v) == BytesOf(unlock(scalar(Enter(bufPoolNew), v)).ws)

\* C18: a line whose content is one value has the same bytes whichever
\* buffer it is composed on, new or reused after another line: once encoded
\* the line is, and at release its output on the stream is, what the value
\* gives on a new buffer, so two lines of the same value are byte-identical.
C18_SameBytes ==
    /\ [](\A b \in Bufs :
            (last.op = "scalar" /\ last.b = b) =>
                Emitted(b) = FreshText(last.arg))
    /\ [][\A b \in Bufs :
            (ReleaseStep(b) /\ last.op = "scalar" /\ last.b = b) =>
                Written(b)' = FreshText(last.arg)]_vars

\* Buffer 1 has composed both lines, the second after its release of the
\* first; the lines needed an early flush and have the same bytes.
C18_Witness ==
    /\ nlines = 2 /\ lineOf[1] = 2 /\ lineOf[2] = 0
    /\ Released(1)
    /\ Len(LineRecs(2)) >= 2
    /\ BytesOf(LineRecs(1)) = BytesOf(LineRecs(2))
    /\ BytesOf(LineRecs(2)) = << 123, 34, 97, 34, 58, 49, 44, 32, 34, 98, 34,
                                 58, 34, 120, 92, 34, 121, 34, 125 >>

\* b composes a line, has appends to make, and another buffer holds the
\* mutex that its next append needs.
Blocked(b) ==
    /\ status[b] = "inuse" /\ nops[b] < MaxOps
    /\ outMu # 0 /\ outMu # b

\* C20: under fair scheduling, with callers that release their lines, the
\* mutex is always eventually released by its holder, every buffer blocked
\* on it eventually acquires it, and every line eventually completes.
C20_Progress ==
    \A b \in Bufs :
        /\ (outMu = b) ~> (outMu # b)
        /\ Blocked(b) ~> (outMu = b)
        /\ (status[b] = "inuse") ~> (status[b] = "pooled")

\* Buffer 2 is blocked on the mutex that buffer 1 holds with a line of its
\* own half composed.
C20_Witness ==
    /\ Blocked(2) /\ outMu = 1
    /\ nops[1] = 1 /\ nops[2] = 0
    /\ bufs[1].locked /\ ~ bufs[2].locked

\* C19: an unordered map of string to value is encoded as one object whose
\* pairs stand in ascending lexicographic order of key, each key once; the
\* text is a function of the entries alone, whatever order the iteration
\* over the map delivered them in.
C19_Sorted ==
    \A b \in Bufs :
        Encoded(b, "map") =>
            LET keys == RefSorted(last.arg.keyset)
            IN  ValueText(b) =
                    << 123 >>
                    \o RefMembers(keys,
                                  [ i \in DOMAIN keys |-> last.arg.val[keys[i]] ],
                                  << 44, 32 >>, 1, FALSE)
                    \o << 125 >>

\* A map whose iteration delivered the keys b, ab, a has been encoded as
\* {"a":1, "ab":1, "b":1}.
C19_Witness ==
    /\ Encoded(1, "map")
    /\ last.arg.order = << KeyB, << Ch.a, Ch.b >>, KeyA >>
    /\ \A k \in last.arg.keyset : last.arg.val[k] = VInt(1)
    /\ ValueText(1) = << 123, 34, 97, 34, 58, 49, 44, 32, 34, 97, 98, 34, 58,
                         49, 44, 32, 34, 98, 34, 58, 49, 125 >>

\* The decimal digits of n, left-padded with '0' to width w and never cut.
RECURSIVE RefPad(_, _)
RefPad(n, w) ==
    IF n < 10 /\ w <= 1 THEN << 48 + n >>
    ELSE RefPad(n \div 10, w - 1) \o << 48 + (n % 10) >>

\* "YYYY-MM-DD HH:MM:SS.mmmZ" between double quotes.
RefStamp(now) ==
    << 34 >> \o RefPad(now.yr, 4) \o << 45 >> \o RefPad(now.mo, 2)
    \o << 45 >> \o RefPad(now.day, 2) \o << 32 >> \o RefPad(now.hr, 2)
    \o << 58 >> \o RefPad(now.mi, 2) \o << 58 >> \o RefPad(now.sec, 2)
    \o << 46 >> \o RefPad(now.ms, 3) \o << 90, 34 >>

\* C21: at any fill level and for any instant with a 4-digit year,
\* timestamp() appends exactly the 26 bytes of the quoted
\* "YYYY-MM-DD HH:MM:SS.mmmZ", every field zero-padded to its width, and
\* sets the pending delimiter to the comma separator.
C21_Stamp ==
    \A b \in Bufs :
        (last.op = "timestamp" /\ last.b = b) =>
            /\ ValueText(b) = RefStamp(last.arg)
            /\ Len(ValueText(b)) = 26
            /\ bufs[b].delim = << 44, 32 >>

\* C22: GcpLevelName maps a level name by its first letter: P and E to
\* Critical, F to Error, W to Warning, N to Notice, A and I to Info, and T,
\* D, O and G to Debug; for none of these letters it returns Default.
C22_Documented ==
    (ret.fn = "GcpLevelName" /\ Len(ret.arg) > 0) =>
        LET c == ret.arg[1]
        IN  /\ c \in { 80, 69 } => ret.val = "Critical"
            /\ c = 70 => ret.val = "Error"
            /\ c = 87 => ret.val = "Warning"
            /\ c = 78 => ret.val = "Notice"
            /\ c \in { 65, 73 } => ret.val = "Info"
            /\ c \in { 84, 68, 79, 71 } => ret.val = "Debug"
            /\ c \in { 80, 69, 70, 87, 78, 65, 73, 84, 68, 79, 71 } =>
                   ret.val # "Default"

\* The values that strconv appends to the cursor directly, and their text.
DirectAppend(v) == v.t \in { "int", "uint", "float" }

DirectText(v) == IF v.t = "float" THEN v.repr ELSE RefEnc(v, << >>)

\* The cursor of b once the pending delimiter is in it: the delimiter alone
\* when it did not fit behind what the buffer held.
AfterDelim(b) ==
    IF bufs[b].cap < Len(bufs[b].buf) + Len(bufs[b].delim)
    THEN bufs[b].delim
    ELSE bufs[b].buf \o bufs[b].delim

\* C23: when the scalar encoder starts to format, after the pending
\* delimiter, the headroom is free in the scratch region; if it was not, the
\* buffer has taken the mutex and flushed first.  A directly appended text
\* no longer than the headroom therefore lands in the scratch region: the
\* cursor never outgrows the scratch capacity and stays a view into it.
C23_Headroom ==
    /\ [](\A b \in Bufs :
            /\ bufs[b].cap = bufs[b].scratch
            /\ Len(bufs[b].buf) <= bufs[b].scratch)
    /\ [][\A b \in Bufs :
            ( /\ HandlerStep(b) /\ last'.op = "scalar"
              /\ DirectAppend(last'.arg)
              /\ Len(DirectText(last'.arg)) <= Headroom ) =>
                IF bufs[b].scratch - Len(AfterDelim(b)) < Headroom
                THEN /\ bufs'[b].locked /\ outMu' = b
                     /\ NewRecs # << >>
                     /\ NewRecs[Len(NewRecs)].bytes = AfterDelim(b)
                     /\ bufs'[b].buf = DirectText(last'.arg)
                ELSE bufs'[b].buf = AfterDelim(b) \o DirectText(last'.arg)]_vars

\* An integer as long as the headroom has been encoded behind a delimiter
\* into a buffer that lacked the headroom: the buffer holds the mutex, has
\* flushed, and holds the integer's text alone.
C23_Witness ==
    /\ last.op = "scalar" /\ last.b = 1
    /\ last.arg = VInt(0 - 12)
    /\ "headroom" \in used[1]
    /\ bufs[1].locked /\ outMu = 1
    /\ bufs[1].buf = << 45, 49, 50 >>
    /\ out # << >>
    /\ SubSeq(out[Len(out)].bytes, Len(out[Len(out)].bytes) - 1,
              Len(out[Len(out)].bytes)) = << 44, 32 >>

\* The same content as a value of the other of the two types.
Twin(v) == IF v.t = "string" THEN VBytes(v.s) ELSE VStr(v.s)

\* C24: the text escaper and the byte escaper are equivalent.  From the
\* same buffer, whatever it holds and whether or not it holds the mutex,
\* encoding a content as a string and as a byte slice passes the same
\* chunks to the stream in the same write calls and leaves the same
\* cursor, lock state and pending delimiter.
C24_Equivalent ==
    [][\A b \in Bufs :
         ( /\ HandlerStep(b) /\ last'.op = "scalar"
           /\ last'.arg.t \in { "string", "bytes" } ) =>
             /\ bufs'[b] = Leave(scalar(Enter(bufs[b]), Twin(last'.arg)))
             /\ ChunksOf(NewRecs) =
                    ChunksOf(scalar(Enter(bufs[b]), Twin(last'.arg)).ws)
             /\ last'.acq = scalar(Enter(bufs[b]), Twin(last'.arg)).acq
             /\ bufs'[b].delim = << 44, 32 >>]_vars

\* A byte slice with a control byte and the byte 0xFF has been encoded into
\* a buffer that held the mutex and had one byte free; it flushed on the
\* way and the text is "\u001f" followed by the byte 0xFF, in quotes.
C24_Witness ==
    /\ last.op = "scalar" /\ last.b = 1
    /\ last.arg = VBytes(<< 31, 255 >>)
    /\ Len(fed[1]) = MaxChunk + ScratchCap - 1
    /\ bufs[1].locked /\ ~ last.acq
    /\ Len(out) >= 2
    /\ ValueText(1) = << 34, 92, 117, 48, 48, 49, 102, 255, 34 >>

\* Line ln has overflowed: it has written to the stream with its flag set.
Overflowed(ln) == \E i \in DOMAIN out : out[i].line = ln /\ out[i].held

\* C25: of two lines that both overflow, all stream writes of one precede
\* all stream writes of the other.  A line that has not overflowed has
\* written nothing while it is composed; every write before the final
\* flush, and every write of a line that overflowed, is made by the owner
\* of the mutex.
C25_Serial ==
    /\ \A i \in DOMAIN out : \A j \in DOMAIN out : \A k \in DOMAIN out :
          ( /\ i < j /\ j < k
            /\ out[i].line = out[k].line
            /\ out[j].line # out[i].line )
          => ~ (Overflowed(out[i].line) /\ Overflowed(out[j].line))
    /\ \A b \in Bufs :
          (status[b] = "inuse" /\ ~ bufs[b].locked) =>
              LineRecs(lineOf[b]) = << >>
    /\ \A i \in DOMAIN out :
          /\ ~ out[i].final => out[i].held
          /\ (out[i].held \/ Overflowed(out[i].line)) => out[i].mu

\* Line 2 was composed on buffer 2, overflowed and was released while
\* buffer 1 composed line 1, which has overflowed since and holds the
\* mutex.
C25_Witness ==
    /\ status[1] = "inuse" /\ lineOf[1] = 1 /\ bufs[1].locked
    /\ status[2] = "pooled" /\ lineOf[2] = 2
    /\ Overflowed(1) /\ Overflowed(2)
    /\ Len(LineRecs(2)) >= 2
    /\ out[Len(out)].line = 1

\* The positions of the trace tr that hold a call of the wrapped handler /
\* a record logged under key.
HandlerAt(tr) == { i \in DOMAIN tr : tr[i].ev = "handler" }

LoggedAt(tr, key) == { i \in DOMAIN tr : tr[i].ev = "log" /\ tr[i].key = key }

\* The handler ran once on the request, and what it returned is returned.
PassedThrough ==
    /\ Cardinality(HandlerAt(ret.val.tr)) = 1
    /\ \A i \in HandlerAt(ret.val.tr) : ret.val.tr[i].val = ret.arg.req
    /\ ret.val.resp = ret.arg.h.resp
    /\ ret.val.err = ret.arg.h.err

\* C26 as stated: the handler is invoked once and its result returned
\* unchanged; nothing is logged when the decider says no; when it says yes
\* the request payload is logged before the handler is invoked, and the
\* response payload after it, exactly when the handler returned no error.
C26_Original ==
    ret.fn = "PayloadUnaryServerInterceptor" =>
        LET tr == ret.val.tr
            rq == LoggedAt(tr, "grpc.request.content")
            rs == LoggedAt(tr, "grpc.response.content")
        IN  /\ PassedThrough
            /\ ~ ret.arg.decide => (rq = { } /\ rs = { })
            /\ ret.arg.decide =>
                  /\ Cardinality(rq) = 1
                  /\ \A i \in rq : \A j \in HandlerAt(tr) : i < j
                  /\ \A i \in rs : \A j \in HandlerAt(tr) : j < i
                  /\ (rs # { }) <=> (ret.arg.h.err = "nil")

\* C26 (amended): the handler is invoked once and its result returned
\* unchanged; nothing is logged when the decider says no; when it says yes
\* the request payload is logged, if it is a protobuf message, before the
\* handler is invoked, and the response payload after it, exactly when the
\* handler returned no error and the response is a protobuf message.
C26_Payloads ==
    ret.fn = "PayloadUnaryServerInterceptor" =>
        LET tr == ret.val.tr
            rq == LoggedAt(tr, "grpc.request.content")
            rs == LoggedAt(tr, "grpc.response.content")
        IN  /\ PassedThrough
            /\ Len(tr) = 1 + Cardinality(rq) + Cardinality(rs)
            /\ ~ ret.arg.decide => (rq = { } /\ rs = { })
            /\ ret.arg.decide =>
                  /\ Cardinality(rq) = IF ret.arg.req.proto THEN 1 ELSE 0
                  /\ \A i \in rq :
                        /\ tr[i].val = Format(ret.arg.req)
                        /\ \A j \in HandlerAt(tr) : i < j
                  /\ Cardinality(rs) =
                        IF ret.arg.h.err = "nil" /\ ret.arg.h.resp.proto
                        THEN 1 ELSE 0
                  /\ \A i \in rs :
                        /\ tr[i].val = Format(ret.arg.h.resp)
                        /\ \A j \in HandlerAt(tr) : j < i

\* A logged call of two protobuf payloads that succeeded: request record,
\* handler, response record.
C26_Witness ==
    /\ ret.fn = "PayloadUnaryServerInterceptor"
    /\ ret.arg.decide /\ ret.arg.req.proto
    /\ ret.arg.h.resp.proto /\ ret.arg.h.err = "nil"
    /\ Len(ret.val.tr) = 3
    /\ ret.val.tr[2].ev = "handler"

====
